---- MODULE Spec2Model ----
(***************************************************************************)
(* A model of the distribution raytracer of cs77-ass4:                     *)
(*   - igl/material.h   (the material model: evaluation and sampling)      *)
(*   - igl/light.h      (the light model: shadow samples, sampling init)   *)
(*   - igl/distraytrace.cpp (the recursive radiance estimator and the      *)
(*                       progressive pixel driver)                         *)
(*                                                                         *)
(* Numbers.  A float is modelled as an exact rational <<n, d>> in lowest   *)
(* terms with d > 0.  Square roots are taken only of perfect squares: the  *)
(* inputs are chosen so that every length the code computes is rational.   *)
(* pif is the rational 22/7.  A vec3f is a triple of rationals.            *)
(***************************************************************************)
EXTENDS Integers, Sequences, FiniteSets, TLC

\* ------------------------------------------------------------------ bounds
\* largest numerator / denominator searched by Sqrt
MaxRoot == 40

\* --------------------------------------------------------------- rationals
Abs(x) == IF x < 0 THEN -x ELSE x

RECURSIVE GCD(_, _)
GCD(a, b) == IF b = 0 THEN a ELSE GCD(b, a % b)

\* the rational n/d in lowest terms, d # 0
Rat(n, d) ==
    LET g == GCD(Abs(n), Abs(d))
        s == IF d < 0 THEN -1 ELSE 1
    IN  <<(s * n) \div g, (s * d) \div g>>

R(n) == <<n, 1>>
\* sums and products reduce by the common factors first, to keep numbers small
RAdd(a, b) ==
    LET g == GCD(a[2], b[2])
    IN  Rat(a[1] * (b[2] \div g) + b[1] * (a[2] \div g), (a[2] \div g) * b[2])
RNeg(a) == <<-a[1], a[2]>>
RSub(a, b) == RAdd(a, RNeg(b))
RMul(a, b) ==
    LET g1 == GCD(Abs(a[1]), b[2])
        g2 == GCD(Abs(b[1]), a[2])
    IN  IF a[1] = 0 \/ b[1] = 0 THEN <<0, 1>>
        ELSE <<(a[1] \div g1) * (b[1] \div g2), (a[2] \div g2) * (b[2] \div g1)>>
\* a / b for b # 0
RDiv(a, b) == RMul(a, Rat(b[2], b[1]))
RLeq(a, b) == a[1] * b[2] <= b[1] * a[2]
RLt(a, b) == a[1] * b[2] < b[1] * a[2]
RAbs(a) == <<Abs(a[1]), a[2]>>
RMax(a, b) == IF RLeq(a, b) THEN b ELSE a

\* pow(a, k) for a natural exponent k; pow(0, 0) = 1 as in C
RECURSIVE RPow(_, _)
RPow(a, k) == IF k = 0 THEN R(1) ELSE RMul(a, RPow(a, k - 1))

IsSquare(k) == \E r \in 0..MaxRoot : r * r = k
IRoot(k) == CHOOSE r \in 0..MaxRoot : r * r = k
\* a >= 0 has a rational square root
RIsSquare(a) == a[1] >= 0 /\ IsSquare(a[1]) /\ IsSquare(a[2])
Sqrt(a) == <<IRoot(a[1]), IRoot(a[2])>>

pif == Rat(22, 7)
\* an infinite float
inf == <<1, 0>>

\* ----------------------------------------------------------------- vectors
V(x, y, z) == <<R(x), R(y), R(z)>>
zero3f == V(0, 0, 0)
one3f == V(1, 1, 1)
z3f == V(0, 0, 1)
VAdd(a, b) == <<RAdd(a[1], b[1]), RAdd(a[2], b[2]), RAdd(a[3], b[3])>>
VSub(a, b) == <<RSub(a[1], b[1]), RSub(a[2], b[2]), RSub(a[3], b[3])>>
VNeg(a) == <<RNeg(a[1]), RNeg(a[2]), RNeg(a[3])>>
\* componentwise product of two vectors (vec3f * vec3f)
VMul(a, b) == <<RMul(a[1], b[1]), RMul(a[2], b[2]), RMul(a[3], b[3])>>
\* vector times scalar, vector over scalar
VScale(a, s) == <<RMul(a[1], s), RMul(a[2], s), RMul(a[3], s)>>
VDiv(a, s) == <<RDiv(a[1], s), RDiv(a[2], s), RDiv(a[3], s)>>
dot(a, b) == RAdd(RAdd(RMul(a[1], b[1]), RMul(a[2], b[2])), RMul(a[3], b[3]))
lengthSqr(a) == dot(a, a)
length(a) == Sqrt(lengthSqr(a))
normalize(a) == VDiv(a, length(a))
\* the lengths of a are rational and a # 0: normalize(a) is exact
Exact(a) == a # zero3f /\ RIsSquare(lengthSqr(a))
cross(a, b) ==
    << RSub(RMul(a[2], b[3]), RMul(a[3], b[2])),
       RSub(RMul(a[3], b[1]), RMul(a[1], b[3])),
       RSub(RMul(a[1], b[2]), RMul(a[2], b[1])) >>
\* reflect(w, n) = w - 2 dot(n, w) n : the mirror image of the incident w
reflect(w, n) == VSub(w, VScale(n, RMul(R(2), dot(n, w))))

\* ------------------------------------------------------------------ frames
Frame(o, x, y, z) == [o |-> o, x |-> x, y |-> y, z |-> z]
identity_frame3f == Frame(zero3f, V(1, 0, 0), V(0, 1, 0), V(0, 0, 1))
transform_vector(f, v) ==
    VAdd(VAdd(VScale(f.x, v[1]), VScale(f.y, v[2])), VScale(f.z, v[3]))
transform_direction(f, v) == transform_vector(f, v)
transform_point_inverse(f, p) ==
    LET vv == VSub(p, f.o) IN <<dot(f.x, vv), dot(f.y, vv), dot(f.z, vv)>>
transform_direction_inverse(f, v) == <<dot(f.x, v), dot(f.y, v), dot(f.z, v)>>

\* ------------------------------------------------------------ call results
\* a call either returns a value or ends in a fatal error (error_va / abort)
Ok(v) == [tag |-> "ok", val |-> v]
Err(m) == [tag |-> "error", msg |-> m]
NOT_IMPLEMENTED_ERROR == Err("not implemented")
\* ERROR_IF_NOT(cond, msg); rest
ERROR_IF_NOT(cond, msg, rest) == IF cond THEN rest ELSE Err(msg)

\* =============================================================== materials
\* A material is a record: kind is the run-time type tag, tex the set of the
\* texture slots that are bound (non-null), the other fields the coefficients
\* of its struct.  exponent is a float holding a natural number.
Lambert(diffuse, tex) == [kind |-> "Lambert", diffuse |-> diffuse, tex |-> tex]
Phong(diffuse, specular, exponent, reflection, blur_size, use_reflected, tex) ==
    [kind |-> "Phong", diffuse |-> diffuse, specular |-> specular,
     exponent |-> exponent, reflection |-> reflection, blur_size |-> blur_size,
     use_reflected |-> use_reflected, tex |-> tex]
LambertEmission(emission, diffuse, tex) ==
    [kind |-> "LambertEmission", emission |-> emission, diffuse |-> diffuse,
     tex |-> tex]
\* a material of no known variant (the abstract base)
OtherMaterial(tex) == [kind |-> "Material", tex |-> tex]

\* C5/C9 mutant of material_has_textures: Phong's reflection slot is forgotten
material_has_textures_noreflection(material) ==
    IF material.kind = "Lambert" THEN Ok("diffuse_texture" \in material.tex)
    ELSE IF material.kind = "Phong"
    THEN Ok(\/ "diffuse_texture" \in material.tex
            \/ "specular_texture" \in material.tex
            \/ "exponent_texture" \in material.tex)
    ELSE IF material.kind = "LambertEmission"
    THEN Ok(\/ "diffuse_texture" \in material.tex
            \/ "emission_texture" \in material.tex)
    ELSE NOT_IMPLEMENTED_ERROR

material_has_textures(material) ==
    IF material.kind = "Lambert" THEN Ok("diffuse_texture" \in material.tex)
    ELSE IF material.kind = "Phong"
    THEN Ok(\/ "diffuse_texture" \in material.tex
            \/ "specular_texture" \in material.tex
            \/ "exponent_texture" \in material.tex
            \/ "reflection_texture" \in material.tex)
    ELSE IF material.kind = "LambertEmission"
    THEN Ok(\/ "diffuse_texture" \in material.tex
            \/ "emission_texture" \in material.tex)
    ELSE NOT_IMPLEMENTED_ERROR

\* ERROR_IF_NOT(not material_has_textures(material), msg); rest
TextureGuard(material, msg, rest) ==
    LET h == material_has_textures(material)
    IN  IF h.tag = "error" THEN h ELSE ERROR_IF_NOT(~h.val, msg, rest)

material_shading_frame(material, frame, texcoord) == frame

\* C9 mutant of material_shading_textures: the texture bindings are copied
material_shading_textures_keeptex(material, texcoord) ==
    IF material.kind = "Lambert"
    THEN Ok(Lambert(material.diffuse, material.tex))
    ELSE IF material.kind = "Phong"
    THEN Ok(Phong(material.diffuse, material.specular, material.exponent,
                  material.reflection, material.blur_size,
                  material.use_reflected, material.tex))
    ELSE IF material.kind = "LambertEmission"
    THEN Ok(LambertEmission(material.emission, material.diffuse, material.tex))
    ELSE NOT_IMPLEMENTED_ERROR

\* the value of the new instance (its allocation is the caller's step)
material_shading_textures(material, texcoord) ==
    IF material.kind = "Lambert"
    THEN Ok(Lambert(material.diffuse, {}))
    ELSE IF material.kind = "Phong"
    THEN Ok(Phong(material.diffuse, material.specular, material.exponent,
                  material.reflection, material.blur_size,
                  material.use_reflected, {}))
    ELSE IF material.kind = "LambertEmission"
    THEN Ok(LambertEmission(material.emission, material.diffuse, {}))
    ELSE NOT_IMPLEMENTED_ERROR

material_diffuse_albedo(material) ==
    TextureGuard(material, "cannot support textures",
        IF material.kind \in {"Lambert", "Phong", "LambertEmission"}
        THEN Ok(material.diffuse)
        ELSE NOT_IMPLEMENTED_ERROR)

material_emission(material, frame, wo) ==
    TextureGuard(material, "cannot support textures",
        IF material.kind = "LambertEmission"
        THEN IF RLeq(dot(wo, frame.z), R(0)) THEN Ok(zero3f)
             ELSE Ok(material.emission)
        ELSE Ok(zero3f))

\* the Phong lobe: (diffuse/pi + (e+8) specular pow(max(c,0),e) / (8 pi)) |cos|
PhongLobe(phong, c, cosi) ==
    VScale(VAdd(VDiv(phong.diffuse, pif),
                VDiv(VScale(VScale(phong.specular, R(phong.exponent + 8)),
                            RPow(RMax(c, R(0)), phong.exponent)),
                     RMul(R(8), pif))),
           RAbs(cosi))

\* C8 mutant of material_brdfcos: Lambert tests only the incoming direction
material_brdfcos_nowo(material, frame, wi, wo) ==
    TextureGuard(material, "cannot support textures",
        IF material.kind = "Lambert"
        THEN IF RLeq(dot(wi, frame.z), R(0))
             THEN Ok(zero3f)
             ELSE Ok(VDiv(VScale(material.diffuse, RAbs(dot(wi, frame.z))), pif))
        ELSE IF material.kind = "Phong"
        THEN IF RLeq(dot(wi, frame.z), R(0)) \/ RLeq(dot(wo, frame.z), R(0))
             THEN Ok(zero3f)
             ELSE IF material.use_reflected
             THEN LET wr == reflect(VNeg(wi), frame.z)
                  IN  Ok(PhongLobe(material, dot(wo, wr), dot(wi, frame.z)))
             ELSE LET wh == normalize(VAdd(wi, wo))
                  IN  Ok(PhongLobe(material, dot(frame.z, wh), dot(wi, frame.z)))
        ELSE IF material.kind = "LambertEmission"
        THEN IF RLeq(dot(wi, frame.z), R(0)) \/ RLeq(dot(wo, frame.z), R(0))
             THEN Ok(zero3f)
             ELSE Ok(VDiv(VScale(material.diffuse, RAbs(dot(wi, frame.z))), pif))
        ELSE NOT_IMPLEMENTED_ERROR)

material_brdfcos(material, frame, wi, wo) ==
    TextureGuard(material, "cannot support textures",
        IF material.kind = "Lambert"
        THEN IF RLeq(dot(wi, frame.z), R(0)) \/ RLeq(dot(wo, frame.z), R(0))
             THEN Ok(zero3f)
             ELSE Ok(VDiv(VScale(material.diffuse, RAbs(dot(wi, frame.z))), pif))
        ELSE IF material.kind = "Phong"
        THEN IF RLeq(dot(wi, frame.z), R(0)) \/ RLeq(dot(wo, frame.z), R(0))
             THEN Ok(zero3f)
             ELSE IF material.use_reflected
             THEN LET wr == reflect(VNeg(wi), frame.z)
                  IN  Ok(PhongLobe(material, dot(wo, wr), dot(wi, frame.z)))
             ELSE LET wh == normalize(VAdd(wi, wo))
                  IN  Ok(PhongLobe(material, dot(frame.z, wh), dot(wi, frame.z)))
        ELSE IF material.kind = "LambertEmission"
        THEN IF RLeq(dot(wi, frame.z), R(0)) \/ RLeq(dot(wo, frame.z), R(0))
             THEN Ok(zero3f)
             ELSE Ok(VDiv(VScale(material.diffuse, RAbs(dot(wi, frame.z))), pif))
        ELSE NOT_IMPLEMENTED_ERROR)

material_display_color(material) ==
    IF material.kind \in {"Lambert", "Phong"} THEN Ok(material.diffuse)
    ELSE IF material.kind = "LambertEmission" THEN Ok(material.emission)
    ELSE NOT_IMPLEMENTED_ERROR

\* BrdfSample, and its default-constructed value
BrdfSample(brdfcos, wi, pdf) == [brdfcos |-> brdfcos, wi |-> wi, pdf |-> pdf]
BrdfSample0 == BrdfSample(zero3f, zero3f, R(1))

material_sample_reflection(material, frame, wo) ==
    TextureGuard(material, "no textures allowed",
        IF material.kind = "Phong"
        THEN IF RLeq(dot(wo, frame.z), R(0)) THEN Ok(BrdfSample0)
             ELSE Ok(BrdfSample(material.reflection,
                                reflect(VNeg(wo), frame.z), R(1)))
        ELSE Ok(BrdfSample0))

\* 1.0 / x as a float: infinite for x = 0
Recip(x) == IF x = R(0) THEN inf ELSE RDiv(R(1), x)

material_sample_blurryreflection(material, frame, wo, suv) ==
    TextureGuard(material, "no textures allowed",
        IF material.kind = "Phong"
        THEN IF RLeq(dot(wo, frame.z), R(0)) THEN Ok(BrdfSample0)
             ELSE LET wi == reflect(VNeg(wo), frame.z)
                      u == normalize(cross(wi, wo))
                      v == normalize(cross(wi, u))
                      sl == material.blur_size
                      du == RMul(RSub(Rat(1, 2), suv[1]), sl)
                      dv == RMul(RSub(Rat(1, 2), suv[2]), sl)
                  IN  Ok(BrdfSample(material.reflection,
                                    normalize(VAdd(VAdd(wi, VScale(u, du)),
                                                   VScale(v, dv))),
                                    Recip(RMul(sl, sl))))
        ELSE Ok(BrdfSample0))

\* cosine-weighted direction on the local hemisphere: z = sqrt(suv.y),
\* r = sqrt(1 - suv.y), phi = 2 pi suv.x, pdf = z / pi; phi is 0 or pi here
sample_direction_hemisphericalcos(suv) ==
    LET z == Sqrt(suv[2])
        r == Sqrt(RSub(R(1), suv[2]))
        x == IF suv[1] = R(0) THEN r ELSE RNeg(r)
    IN  [dir |-> <<x, R(0), z>>, pdf |-> RDiv(z, pif)]

material_sample_brdfcos(material, frame, wo, suv, sl) ==
    TextureGuard(material, "no textures allowed",
        IF material.kind \in {"Lambert", "Phong", "LambertEmission"}
        THEN IF RLeq(dot(wo, frame.z), R(0)) THEN Ok(BrdfSample0)
             ELSE LET ds == sample_direction_hemisphericalcos(suv)
                      wi == transform_direction(frame, ds.dir)
                      b == material_brdfcos(material, frame, wi, wo)
                  IN  Ok(BrdfSample(b.val, wi, ds.pdf))
        ELSE NOT_IMPLEMENTED_ERROR)


\* ================================================================== lights
\* The null pointer; an object's address is a positive number.
null == 0
\* ray3f::rayinf, the distance of a light at infinity
rayinf == inf

Quad(width, height) == [kind |-> "Quad", width |-> width, height |-> height]
PointLight(frame, intensity) ==
    [kind |-> "PointLight", frame |-> frame, intensity |-> intensity]
DirectionalLight(frame, intensity) ==
    [kind |-> "DirectionalLight", frame |-> frame, intensity |-> intensity]
AreaLight(frame, intensity, shape, shadow_samples) ==
    [kind |-> "AreaLight", frame |-> frame, intensity |-> intensity,
     shape |-> shape, shadow_samples |-> shadow_samples]
EnvLight(frame, intensity, envmap, shadow_samples, importance_sampling, dist) ==
    [kind |-> "EnvLight", frame |-> frame, intensity |-> intensity,
     envmap |-> envmap, hemisphere |-> FALSE, shadow_samples |-> shadow_samples,
     importance_sampling |-> importance_sampling,
     _importance_distribution |-> dist]
\* a light of no known variant (the abstract base)
OtherLight(frame) == [kind |-> "Light", frame |-> frame]

light_shadow_nsamples(light) ==
    IF light.kind = "AreaLight" THEN light.shadow_samples
    ELSE IF light.kind = "EnvLight" THEN light.shadow_samples
    ELSE 1

ShadowSample(radiance, dir, dist, pdf) ==
    [radiance |-> radiance, dir |-> dir, dist |-> dist, pdf |-> pdf]

light_shadow_sample(light, p) ==
    LET pl == transform_point_inverse(light.frame, p)
    IN  IF light.kind = "PointLight"
        THEN Ok(ShadowSample(VDiv(light.intensity, lengthSqr(pl)),
                             transform_direction(light.frame, normalize(VNeg(pl))),
                             length(pl), R(1)))
        ELSE IF light.kind = "DirectionalLight"
        THEN Ok(ShadowSample(light.intensity,
                             transform_direction(light.frame, VNeg(z3f)),
                             rayinf, R(1)))
        ELSE IF light.kind = "AreaLight"
        THEN Ok(ShadowSample(VDiv(light.intensity, lengthSqr(pl)),
                             transform_direction(light.frame, normalize(VNeg(pl))),
                             length(pl), R(1)))
        ELSE IF light.kind = "EnvLight"
        THEN Ok(ShadowSample(VScale(light.intensity, pif),
                             transform_direction(light.frame, normalize(VNeg(pl))),
                             rayinf, R(1)))
        ELSE NOT_IMPLEMENTED_ERROR

\* the light frame shifted by a random amount within the shape (world axes)
rand_point(light, u_rand, v_rand) ==
    LET sh == light.shape
        u == RMul(RSub(Rat(1, 2), u_rand), sh.width)
        v == RMul(RSub(Rat(1, 2), v_rand), sh.height)
        shift == transform_vector(identity_frame3f, <<u, v, R(0)>>)
    IN  [light.frame EXCEPT !.o = VAdd(@, shift)]

rand_light_shadow_sample(light, p, u_rand, v_rand) ==
    IF light.kind = "AreaLight"
    THEN LET sh == light.shape
             rp == rand_point(light, u_rand, v_rand)
             pl == transform_point_inverse(rp, p)
             dir == normalize(VNeg(pl))
             radiance == VScale(VDiv(light.intensity, lengthSqr(pl)),
                                dot(z3f, VNeg(dir)))
         IN  Ok(ShadowSample(radiance, transform_direction(rp, dir), length(pl),
                             RDiv(R(1), RMul(sh.width, sh.height))))
    ELSE light_shadow_sample(light, p)

light_sample_background(light, wo) ==
    IF light.kind = "EnvLight" THEN light.intensity ELSE zero3f

\* A Distribution2D is recorded by the texture it was built from and the size
\* of that texture's image (it holds one weight per pixel: the pixel's mean
\* component times the sine of its row's polar angle).
Distribution2D(envmap, image) ==
    [envmap |-> envmap, width |-> image.width, height |-> image.height]


\* =================================================================== state
VARIABLES
    mcall,   \* the last material call: operation, arguments and outcome
    lcall,   \* the last light call: operation, arguments and outcome
    envl,    \* an environment light of the scene (sample_light_init's target)
    dheap,   \* the live (allocated, not deleted) Distribution2D objects, by address
    dnext,   \* the number of Distribution2D allocations so far (next address)
    scene,   \* the scene: surfaces, lights and camera lights
    opts,    \* the DistributionRaytraceOptions of the render
    callq,   \* the call of _dist_raytrace_scene_ray being entered, if any
    retv,    \* the value a call has just returned, if any
    stack,   \* the activation records of _dist_raytrace_scene_ray, innermost last
    heap,    \* the live resolved materials (new ... delete brdf), by address
    hnext,   \* the next address of a resolved material
    fault,   \* the fatal error that ended the program, if any
    buffer,  \* the ImageBuffer: per pixel the running sum and the sample count
    drv,     \* the activation of dist_raytrace_scene_progressive, if any
    fed      \* the history of the buffer: its first contents, and per pixel
             \* the radiance values the integrator has returned for it

matVars == <<mcall>>
lightVars == <<lcall, envl, dheap, dnext>>
rtVars == <<scene, opts, callq, retv, stack, heap, hnext, fault>>
drvVars == <<buffer, drv, fed>>
vars == <<mcall, lcall, envl, dheap, dnext,
          scene, opts, callq, retv, stack, heap, hnext, fault,
          buffer, drv, fed>>
\* what a material call, a light call, and the integrator leave alone
notMat == <<lightVars, rtVars, drvVars>>
notLight == <<matVars, rtVars, drvVars>>
notRt == <<matVars, lightVars, drvVars>>
notDrv == <<matVars, lightVars>>

\* ------------------------------------------------------ bounds and inputs
\* allocations (of a Distribution2D, of a resolved material) one run of the
\* light or material model may make
MaxAllocs == 3

Half == Rat(1, 2)
FUp == identity_frame3f
\* at height 4, facing down
FDown == Frame(V(0, 0, 4), V(1, 0, 0), V(0, -1, 0), V(0, 0, -1))
Frames == {FUp, FDown}

\* unit directions with rational components
Dirs == { V(0, 0, 1), V(0, 0, -1), V(1, 0, 0),
          <<Rat(3, 5), R(0), Rat(4, 5)>>, <<Rat(-3, 5), R(0), Rat(4, 5)>>,
          <<Rat(3, 5), R(0), Rat(-4, 5)>>, <<Rat(4, 5), R(0), Rat(3, 5)>> }
Colors == {zero3f, <<Rat(3, 4), Rat(3, 4), Rat(3, 4)>>, <<Rat(1, 2), R(0), Rat(1, 4)>>}
Grey == <<Rat(3, 4), Rat(3, 4), Rat(3, 4)>>

LambertSlots == {"normal_texture", "diffuse_texture"}
PhongSlots == {"normal_texture", "diffuse_texture", "specular_texture",
               "exponent_texture", "reflection_texture"}
EmissionSlots == {"normal_texture", "emission_texture", "diffuse_texture"}
\* no slot, one slot, or every slot bound
Bindings(slots) == {{}} \cup {{t} : t \in slots} \cup {slots}

Materials ==
    {Lambert(d, t) : d \in Colors, t \in Bindings(LambertSlots)}
    \cup {Phong(Grey, sp, e, r, b, ur, t) :
            sp \in {zero3f, <<Rat(1, 4), Rat(1, 4), Rat(1, 4)>>}, e \in {1, 2},
            r \in {zero3f, <<Rat(1, 2), Rat(1, 2), Rat(1, 2)>>},
            b \in {R(0), Rat(3, 2)}, ur \in BOOLEAN, t \in Bindings(PhongSlots)}
    \cup {LambertEmission(em, d, t) :
            em \in {zero3f, one3f}, d \in {zero3f, one3f},
            t \in Bindings(EmissionSlots)}
    \cup {OtherMaterial({})}

IsOk(r) == r.tag = "ok"
Resolved(material) == material_shading_textures(material, <<R(0), R(0)>>)

\* material_brdfcos takes no inexact square root on these arguments
BrdfcosExact(material, frame, wi, wo) ==
    (/\ material.kind = "Phong"
     /\ ~material.use_reflected
     /\ ~RLeq(dot(wi, frame.z), R(0))
     /\ ~RLeq(dot(wo, frame.z), R(0))) => Exact(VAdd(wi, wo))

\* ---------------------------------------------------- material operations
MatHasTextures ==
    /\ UNCHANGED notMat
    /\ mcall.op = "none"
    /\ \E m \in Materials :
           mcall' = [op |-> "material_has_textures", material |-> m,
                     ret |-> material_has_textures(m)]

\* C11 mutant of Delete: the instance is never released
Delete_leak(h, addr) == h

\* delete brdf: the instance at addr is no longer live
Delete(h, addr) == [a \in DOMAIN h \ {addr} |-> h[a]]

\* the call stores its outcome; a successful one has allocated the instance
\* it returns (new Lambert / new Phong / new LambertEmission)
MatResolve(m, res) ==
    /\ mcall' = [op |-> "material_shading_textures", material |-> m,
                 addr |-> IF IsOk(res) THEN hnext ELSE null, ret |-> res]
    /\ heap' = IF IsOk(res) THEN (hnext :> res.val) @@ heap ELSE heap
    /\ hnext' = IF IsOk(res) THEN hnext + 1 ELSE hnext
MatShadingTextures ==
    /\ UNCHANGED <<lightVars, drvVars>>
    /\ UNCHANGED <<scene, opts, callq, retv, stack, fault>>
    /\ mcall.op = "none"
    /\ hnext <= MaxAllocs
    /\ \E m \in Materials :
         MatResolve(m, material_shading_textures(m, <<R(0), R(0)>>))

\* the caller releases the instance it was handed (delete brdf)
MatDelete ==
    /\ UNCHANGED <<lightVars, drvVars>>
    /\ UNCHANGED <<scene, opts, callq, retv, stack, hnext, fault>>
    /\ mcall.op = "material_shading_textures"
    /\ mcall.addr \in DOMAIN heap
    /\ heap' = Delete(heap, mcall.addr)
    /\ mcall' = [op |-> "none"]

MatDiffuseAlbedo ==
    /\ UNCHANGED notMat
    /\ mcall.op = "none"
    /\ \E m \in Materials :
           mcall' = [op |-> "material_diffuse_albedo", material |-> m,
                     ret |-> material_diffuse_albedo(m)]

MatEmission ==
    /\ UNCHANGED notMat
    /\ mcall.op = "none"
    /\ \E m \in Materials, f \in Frames, wo \in Dirs :
           mcall' = [op |-> "material_emission", material |-> m, frame |-> f,
                     wo |-> wo, ret |-> material_emission(m, f, wo)]

MatBrdfcos ==
    /\ UNCHANGED notMat
    /\ mcall.op = "none"
    /\ \E m \in Materials, f \in Frames, wi \in Dirs, wo \in Dirs :
           /\ BrdfcosExact(m, f, wi, wo)
           /\ mcall' = [op |-> "material_brdfcos", material |-> m, frame |-> f,
                        wi |-> wi, wo |-> wo,
                        ret |-> material_brdfcos(m, f, wi, wo)]

MatSampleReflection ==
    /\ UNCHANGED notMat
    /\ mcall.op = "none"
    /\ \E m \in Materials, f \in Frames, wo \in Dirs :
           mcall' = [op |-> "material_sample_reflection", material |-> m,
                     frame |-> f, wo |-> wo,
                     ret |-> material_sample_reflection(m, f, wo)]

\* the blurred direction is exact for these arguments
BlurryExact(material, frame, wo, suv) ==
    (/\ material.kind = "Phong"
     /\ ~RLeq(dot(wo, frame.z), R(0)))
    => LET wi == reflect(VNeg(wo), frame.z)
           cu == cross(wi, wo)
       IN  /\ Exact(cu)
           /\ Exact(cross(wi, normalize(cu)))
           /\ LET u == normalize(cu)
                  v == normalize(cross(wi, u))
                  du == RMul(RSub(Half, suv[1]), material.blur_size)
                  dv == RMul(RSub(Half, suv[2]), material.blur_size)
              IN  Exact(VAdd(VAdd(wi, VScale(u, du)), VScale(v, dv)))

MatSampleBlurry ==
    /\ UNCHANGED notMat
    /\ mcall.op = "none"
    /\ \E m \in Materials, f \in Frames, wo \in Dirs,
          suv \in {<<Half, Half>>, <<R(0), Half>>, <<Half, R(1)>>} :
           /\ BlurryExact(m, f, wo, suv)
           /\ mcall' = [op |-> "material_sample_blurryreflection", material |-> m,
                        frame |-> f, wo |-> wo, suv |-> suv,
                        ret |-> material_sample_blurryreflection(m, f, wo, suv)]

HemiUV == {<<R(0), R(1)>>, <<R(0), Rat(16, 25)>>, <<Half, Rat(16, 25)>>,
           <<R(0), R(0)>>}

MatSampleBrdfcos ==
    /\ UNCHANGED notMat
    /\ mcall.op = "none"
    /\ \E m \in Materials, f \in Frames, wo \in Dirs, suv \in HemiUV :
           /\ BrdfcosExact(m, f,
                  transform_direction(f, sample_direction_hemisphericalcos(suv).dir),
                  wo)
           /\ mcall' = [op |-> "material_sample_brdfcos", material |-> m,
                        frame |-> f, wo |-> wo, suv |-> suv,
                        ret |-> material_sample_brdfcos(m, f, wo, suv, R(0))]

\* the caller takes the outcome; the next call may follow
\* the caller goes on; an instance it holds it releases first (MatDelete)
MatReturn ==
    /\ UNCHANGED notMat
    /\ mcall.op # "none"
    /\ DOMAIN heap = {}
    /\ mcall' = [op |-> "none"]

NextMat ==
    \/ MatDelete
    \/ MatHasTextures
    \/ MatShadingTextures
    \/ MatDiffuseAlbedo
    \/ MatEmission
    \/ MatBrdfcos
    \/ MatSampleReflection
    \/ MatSampleBlurry
    \/ MatSampleBrdfcos
    \/ MatReturn


\* ------------------------------------------------------- light operations
\* the scene's textures, by address, and their images
Textures == {1, 2, 3}
TextureImage(t) == IF t = 1 THEN [width |-> 2, height |-> 1]
                   ELSE [width |-> 2, height |-> t]
Intensities == {one3f, V(2, 1, 0)}
Lights ==
    {PointLight(f, i) : f \in Frames, i \in Intensities}
    \cup {DirectionalLight(f, i) : f \in Frames, i \in Intensities}
    \cup {AreaLight(f, i, q, 2) : f \in Frames, i \in Intensities,
            q \in {Quad(R(8), R(8)), Quad(R(6), R(2))}}
    \cup {EnvLight(f, one3f, t, n, b, null) : f \in Frames,
            t \in {null, 1}, n \in {2, 16}, b \in BOOLEAN}
    \cup {OtherLight(f) : f \in Frames}
Points == {V(0, 0, 0), V(0, 0, 8), V(3, 0, 0), V(0, 0, -2), V(2, 4, 0), V(3, 0, 8)}
Rands == {R(0), Rat(1, 4), Half}

\* light_shadow_sample takes no inexact square root on these arguments
ShadowExact(light, p) ==
    light.kind \in {"PointLight", "AreaLight", "EnvLight"}
        => Exact(transform_point_inverse(light.frame, p))
RandShadowExact(light, p, u_rand, v_rand) ==
    IF light.kind = "AreaLight"
    THEN Exact(transform_point_inverse(rand_point(light, u_rand, v_rand), p))
    ELSE ShadowExact(light, p)

LShadowNSamples ==
    /\ UNCHANGED notLight
    /\ lcall.op = "none"
    /\ \E l \in Lights :
        lcall' = [op |-> "light_shadow_nsamples", light |-> l,
                  ret |-> Ok(light_shadow_nsamples(l))]
    /\ UNCHANGED <<envl, dheap, dnext>>

LShadowSample ==
    /\ UNCHANGED notLight
    /\ lcall.op = "none"
    /\ \E l \in Lights, p \in Points :
        /\ ShadowExact(l, p)
        /\ lcall' = [op |-> "light_shadow_sample", light |-> l, p |-> p,
                     ret |-> light_shadow_sample(l, p)]
    /\ UNCHANGED <<envl, dheap, dnext>>

LRandShadowSample ==
    /\ UNCHANGED notLight
    /\ lcall.op = "none"
    /\ \E l \in Lights, p \in Points, u \in Rands, v \in Rands :
        /\ RandShadowExact(l, p, u, v)
        /\ lcall' = [op |-> "rand_light_shadow_sample", light |-> l, p |-> p,
                     u_rand |-> u, v_rand |-> v,
                     ret |-> rand_light_shadow_sample(l, p, u, v)]
    /\ UNCHANGED <<envl, dheap, dnext>>

LSampleBackground ==
    /\ UNCHANGED notLight
    /\ lcall.op = "none"
    /\ \E l \in Lights, wo \in Dirs :
        lcall' = [op |-> "light_sample_background", light |-> l, wo |-> wo,
                  ret |-> Ok(light_sample_background(l, wo))]
    /\ UNCHANGED <<envl, dheap, dnext>>

\* C7 mutant of sample_light_init: the previous distribution is not deleted
sample_light_init_nodelete(light, dh, next) ==
    IF light.kind = "EnvLight"
    THEN IF ~light.importance_sampling \/ light.envmap = null
         THEN [light |-> light, heap |-> dh, next |-> next]
         ELSE [light |-> [light EXCEPT !._importance_distribution = next],
               heap |-> [a \in DOMAIN dh \cup {next} |->
                            IF a = next
                            THEN Distribution2D(light.envmap,
                                                TextureImage(light.envmap))
                            ELSE dh[a]],
               next |-> next + 1]
    ELSE [light |-> light, heap |-> dh, next |-> next]

\* the light, the dh of distributions and the allocation count after the call
sample_light_init(light, dh, next) ==
    IF light.kind = "EnvLight"
    THEN IF ~light.importance_sampling \/ light.envmap = null
         THEN [light |-> light, heap |-> dh, next |-> next]
         ELSE LET kept == IF light._importance_distribution # null
                          THEN DOMAIN dh \ {light._importance_distribution}
                          ELSE DOMAIN dh
              IN  [light |-> [light EXCEPT !._importance_distribution = next],
                   heap |-> [a \in kept \cup {next} |->
                                IF a = next
                                THEN Distribution2D(light.envmap,
                                                    TextureImage(light.envmap))
                                ELSE dh[a]],
                   next |-> next + 1]
    ELSE [light |-> light, heap |-> dh, next |-> next]

\* sample_light_init on a light of the scene, from an empty heap
LSampleLightInitCall ==
    /\ UNCHANGED notLight
    /\ lcall.op = "none"
    /\ \E l \in Lights :
        lcall' = [op |-> "sample_light_init", light |-> l, heap |-> <<>>,
                  after |-> sample_light_init(l, <<>>, 1), ret |-> Ok("void")]
    /\ UNCHANGED <<envl, dheap, dnext>>

\* the caller takes the outcome; the next call may follow
LReturn ==
    /\ UNCHANGED notLight
    /\ lcall.op # "none"
    /\ lcall' = [op |-> "none"]
    /\ UNCHANGED <<envl, dheap, dnext>>

NextLight ==
    \/ LShadowNSamples
    \/ LShadowSample
    \/ LRandShadowSample
    \/ LSampleBackground
    \/ LSampleLightInitCall
    \/ LReturn

\* ------------------------------- the environment light's distribution
\* sample_light_init on the scene's environment light
EnvSampleLightInit ==
    /\ UNCHANGED notLight
    /\ dnext <= MaxAllocs
    /\ LET r == sample_light_init(envl, dheap, dnext)
       IN  /\ envl' = r.light
           /\ dheap' = r.heap
           /\ dnext' = r.next
           /\ lcall' = [op |-> "sample_light_init", light |-> envl,
                        heap |-> dheap, after |-> r, ret |-> Ok("void")]

\* the scene changes between two initializations
EnvSetImportance ==
    /\ UNCHANGED notLight
    /\ \E b \in BOOLEAN : envl' = [envl EXCEPT !.importance_sampling = b]
    /\ lcall' = [op |-> "none"]
    /\ UNCHANGED <<dheap, dnext>>

EnvSetEnvmap ==
    /\ UNCHANGED notLight
    /\ \E t \in {null} \cup Textures : envl' = [envl EXCEPT !.envmap = t]
    /\ lcall' = [op |-> "none"]
    /\ UNCHANGED <<dheap, dnext>>

\* orthonormalize(frame): z is kept, x and y are rebuilt at right angles
orthonormalize(f) ==
    Frame(f.o,
          normalize(cross(f.y, normalize(f.z))),
          normalize(cross(normalize(f.z), normalize(cross(f.y, normalize(f.z))))),
          normalize(f.z))
\* light_lookat(light, eye, center, up)
light_lookat(light, eye, center, up) ==
    [light EXCEPT !.frame = orthonormalize(
                      Frame(eye, @.x, up, normalize(VSub(center, eye))))]
\* light_lookat takes no inexact square root on these arguments
LookatExact(eye, center, up) ==
    /\ Exact(VSub(center, eye))
    /\ Exact(cross(up, normalize(VSub(center, eye))))
\* eye points and up vectors of light_lookat
Eyes == {V(0, 0, 4), V(0, 0, -4), V(3, 0, 4)}
Ups == {V(0, 1, 0), V(1, 0, 0)}

\* the environment light is oriented
EnvLookat ==
    /\ UNCHANGED notLight
    /\ \E eye \in Eyes, up \in Ups :
         /\ LookatExact(eye, zero3f, up)
         /\ envl' = light_lookat(envl, eye, zero3f, up)
         /\ lcall' = [op |-> "light_lookat", light |-> envl, eye |-> eye,
                      center |-> zero3f, up |-> up]
    /\ UNCHANGED <<dheap, dnext>>

NextEnv ==
    \/ EnvLookat
    \/ EnvSampleLightInit
    \/ EnvSetImportance
    \/ EnvSetEnvmap

\* ============================================================== integrator
\* ------------------------------------------------ the scene's intersector
\* ray3f::epsilon, the offset that keeps a ray off its own origin
epsilon == Rat(1, 1000)
\* ray3f(o, d), and ray3f::segment(a, b)
Ray(o, d) == [o |-> o, d |-> d, tmin |-> epsilon, tmax |-> rayinf]
segment(a, b) ==
    [o |-> a, d |-> normalize(VSub(b, a)), tmin |-> epsilon,
     tmax |-> RSub(length(VSub(b, a)), epsilon)]

\* A surface is a horizontal rectangle at height z, facing along n (up or
\* down), of one material.
Surface(z, xmin, xmax, ymin, ymax, n, material) ==
    [z |-> z, xmin |-> xmin, xmax |-> xmax, ymin |-> ymin, ymax |-> ymax,
     n |-> n, material |-> material]
\* the ray parameter at which the ray meets the surface's plane
HitT(s, ray) == RDiv(RSub(R(s.z), ray.o[3]), ray.d[3])
\* the point of the ray at parameter t
RayAt(ray, t) == VAdd(ray.o, VScale(ray.d, t))
\* t lies within the ray's range; pt lies within the rectangle
InRange(ray, t) == RLt(ray.tmin, t) /\ (ray.tmax = rayinf \/ RLt(t, ray.tmax))
InRect(s, pt) ==
    /\ RLeq(R(s.xmin), pt[1]) /\ RLeq(pt[1], R(s.xmax))
    /\ RLeq(R(s.ymin), pt[2]) /\ RLeq(pt[2], R(s.ymax))
Hits(s, ray) ==
    /\ ray.d[3] # R(0)
    /\ InRange(ray, HitT(s, ray))
    /\ InRect(s, RayAt(ray, HitT(s, ray)))
SurfaceFrame(s, pt) ==
    IF s.n = z3f THEN Frame(pt, V(1, 0, 0), V(0, 1, 0), V(0, 0, 1))
    ELSE Frame(pt, V(1, 0, 0), V(0, -1, 0), V(0, 0, -1))

\* the nearest hit along the ray: [hit |-> FALSE], or the intersection3f
HitSet(sc, ray) == {i \in 1..Len(sc.surfaces) : Hits(sc.surfaces[i], ray)}
Nearest(sc, ray, hits) ==
    CHOOSE k \in hits : \A j \in hits :
        RLeq(HitT(sc.surfaces[k], ray), HitT(sc.surfaces[j], ray))
Intersection(sf, ray) ==
    [hit |-> TRUE, frame |-> SurfaceFrame(sf, RayAt(ray, HitT(sf, ray))),
     texcoord |-> <<R(0), R(0)>>, material |-> sf.material]
NearestOf(sc, ray, hits) ==
    IF hits = {} THEN [hit |-> FALSE]
    ELSE Intersection(sc.surfaces[Nearest(sc, ray, hits)], ray)
intersect_scene_first(sc, ray) == NearestOf(sc, ray, HitSet(sc, ray))
intersect_scene_any(sc, ray) ==
    \E i \in 1..Len(sc.surfaces) : Hits(sc.surfaces[i], ray)

\* the frame turned to face the incoming ray
faceforward(frame, d) ==
    IF RLeq(dot(frame.z, d), R(0)) THEN frame
    ELSE [frame EXCEPT !.y = VNeg(@), !.z = VNeg(@)]

\* ------------------------------------------------------------ the estimator
NoCall == [kind |-> "none"]
NoRet == [kind |-> "none"]
NoFault == [tag |-> "none"]
Call(ray, depth) == [kind |-> "call", ray |-> ray, depth |-> depth]
Ret(c) == [kind |-> "ret", val |-> c]
Top == stack[Len(stack)]
Pop(st) == SubSeq(st, 1, Len(st) - 1)
SetTop(st, f) == [st EXCEPT ![Len(st)] = f]
Max(a, b) == IF a < b THEN b ELSE a

\* the light group the direct term uses
LightGroup(sc, o) == IF o.cameralights THEN sc._cameralights ELSE sc.lights

\* the direction of one ambient-occlusion ray, from three random floats
hemi_dir(r) ==
    normalize(<<RSub(Half, r[1]), RSub(Half, r[2]), RAbs(RSub(Half, r[3]))>>)
\* the number of the drawn hemisphere rays that meet no geometry
Visible(sc, frame, draws) ==
    Cardinality({i \in DOMAIN draws :
        ~intersect_scene_any(sc,
            Ray(frame.o, transform_direction(frame, hemi_dir(draws[i]))))})
\* the ambient term
Ambient(o, visible, albedo) ==
    IF o.samples_ambient # 0
    THEN VMul(VScale(o.ambient, RDiv(R(visible), R(o.samples_ambient))), albedo)
    ELSE VMul(o.ambient, albedo)

\* the number of shadow-loop repetitions of a light
shadow_samples(l) == IF l.kind = "AreaLight" THEN l.shadow_samples ELSE 1

\* the segment of the visibility query, from the hit point to the sample; to
\* a light at distance rayinf it is, for a build whose rayinf is a large
\* finite float, the ray that leaves the scene
ShadowSegment(o, ss) ==
    IF ss.dist = rayinf THEN Ray(o, ss.dir)
    ELSE segment(o, VAdd(o, VScale(ss.dir, ss.dist)))
\* what the visibility query of line 69 can report.  For a build whose rayinf
\* is the float infinity, frame.o + ss.dir * ss.dist has NaN components when
\* ss.dist = rayinf, the segment is all NaN, and the intersector's answer on
\* it is either one.
ShadowOutcomes(sc, o, f) ==
    IF ~o.shadows THEN {FALSE}
    ELSE {intersect_scene_any(sc, ShadowSegment(f.frame.o, f.ss))}
         \cup (IF f.ss.dist = rayinf THEN BOOLEAN ELSE {})

\* C1 mutant of ReflectGuard: the depth test is off by one
ReflectGuard_offbyone(o, depth) == o.reflections /\ depth <= o.max_depth

\* the guard of the recursion
ReflectGuard(o, depth) == o.reflections /\ depth < o.max_depth

\* a skipped repetition (the `continue' of lines 64 and 67)
ShadowSkip(f) ==
    Ok([skip |-> TRUE, queried |-> FALSE, occluded |-> FALSE, c |-> f.c])
\* line 66: the light's radiance weighted by the brdf and the sample's pdf
ShadowCl(f, b) == VDiv(VMul(f.ss.radiance, b.val), f.ss.pdf)
\* c + cl / shadow_samples
ShadowAdd(f, cl) == VAdd(f.c, VDiv(cl, R(f.shadow_samples)))

\* C10 mutant of ShadowQuery: the answer of the visibility query is ignored
ShadowQuery_unoccluded(f, occ, add) ==
    Ok([skip |-> FALSE, queried |-> TRUE, occluded |-> occ, c |-> add])

\* lines 71-73: the visibility query was made and answered occ
ShadowQuery(f, occ, add) ==
    Ok([skip |-> FALSE, queried |-> TRUE, occluded |-> occ,
        c |-> IF occ THEN f.c ELSE add])
\* lines 69-77: with shadows the query decides, without it nothing is asked
ShadowTest(occ, o, f, add) ==
    IF o.shadows
    THEN ShadowQuery(f, occ, add)
    ELSE Ok([skip |-> FALSE, queried |-> FALSE, occluded |-> FALSE, c |-> add])
ShadowWeigh(occ, o, f, cl) ==
    IF cl = zero3f THEN ShadowSkip(f) ELSE ShadowTest(occ, o, f, ShadowAdd(f, cl))
ShadowEval(occ, o, f, b) ==
    IF ~IsOk(b) THEN b ELSE ShadowWeigh(occ, o, f, ShadowCl(f, b))

\* one repetition of the shadow loop in activation f, its visibility query
\* (if made) reporting occ: whether it was skipped, whether the query was
\* made and what it reported, and c after it
ShadowIteration(occ, o, f, brdf) ==
    IF f.ss.radiance = zero3f THEN ShadowSkip(f)
    ELSE ShadowEval(occ, o, f, material_brdfcos(brdf, f.frame, f.ss.dir, f.wo))

\* the program ends in the fatal error e
Abort(e) ==
    /\ fault' = e
    /\ UNCHANGED <<scene, opts, callq, retv, stack, heap, hnext>>

\* the activation after the hit was shaded: frame, resolved material, ambient
\* and emission terms
Activation(sc, o, call, isec, draws, addr, frame, visible, ambient, emission) ==
    [depth |-> call.depth, ray |-> call.ray, material |-> isec.material,
     frame |-> frame, wo |-> VNeg(call.ray.d), brdf |-> addr,
     nrays |-> Len(draws), visible |-> visible,
     ambient |-> ambient,
     c |-> VAdd(ambient, emission),
     li |-> 1, i |-> 0, shadow_samples |-> 0,
     ss |-> ShadowSample(zero3f, zero3f, R(0), R(1)),
     iter |-> [kind |-> "none"],
     bs |-> BrdfSample0,
     pc |-> IF Len(LightGroup(sc, o)) = 0 THEN "reflect" ELSE "light"]
\* lines 33-56: ambient term, then emission term
ShadeTerms(sc, o, call, isec, draws, addr, frame, visible, albedo, emission) ==
    IF ~IsOk(albedo) THEN albedo
    ELSE IF ~IsOk(emission) THEN emission
    ELSE Ok(Activation(sc, o, call, isec, draws, addr, frame, visible,
                       Ambient(o, visible, albedo.val), emission.val))
ShadeAt(sc, o, call, isec, draws, addr, brdf, frame) ==
    ShadeTerms(sc, o, call, isec, draws, addr, frame,
               Visible(sc, isec.frame, draws),
               material_diffuse_albedo(brdf),
               material_emission(brdf, frame, VNeg(call.ray.d)))
\* lines 19-26: the shading frame
Shade(sc, o, call, isec, draws, addr, brdf) ==
    ShadeAt(sc, o, call, isec, draws, addr, brdf,
            material_shading_frame(isec.material,
                IF o.doublesided THEN faceforward(isec.frame, call.ray.d)
                ELSE isec.frame,
                isec.texcoord))

\* three random floats of one ambient-occlusion ray
HemiDraws == {<<Half, Half, R(0)>>, <<Rat(1, 8), Half, R(0)>>,
              <<Rat(7, 8), Half, R(0)>>}

\* line 16: the ray misses the scene; the call returns the background
RtMiss ==
    /\ UNCHANGED notRt
    /\ fault = NoFault
    /\ callq # NoCall
    /\ ~intersect_scene_first(scene, callq.ray).hit
    /\ retv' = Ret(opts.background)
    /\ callq' = NoCall
    /\ UNCHANGED <<scene, opts, stack, heap, hnext, fault>>

\* lines 16-56: the ray hits; the material is resolved, the ambient and the
\* emission terms are added
RtShadePush(brdf, f) ==
    IF ~IsOk(f)
    THEN /\ fault' = f
         /\ heap' = (hnext :> brdf) @@ heap
         /\ hnext' = hnext + 1
         /\ UNCHANGED <<scene, opts, callq, retv, stack>>
    ELSE /\ stack' = Append(stack, f.val)
         /\ heap' = (hnext :> brdf) @@ heap
         /\ hnext' = hnext + 1
         /\ callq' = NoCall
         /\ UNCHANGED <<scene, opts, retv, fault>>
RtShadeResolved(isec, draws, res) ==
    IF ~IsOk(res) THEN Abort(res)
    ELSE RtShadePush(res.val,
                     Shade(scene, opts, callq, isec, draws, hnext, res.val))
RtShadeHit(isec) ==
    /\ isec.hit
    /\ \E draws \in [1..Max(opts.samples_ambient, 0) -> HemiDraws] :
         RtShadeResolved(isec, draws,
             material_shading_textures(isec.material, isec.texcoord))
RtShade ==
    /\ UNCHANGED notRt
    /\ fault = NoFault
    /\ callq # NoCall
    /\ RtShadeHit(intersect_scene_first(scene, callq.ray))

\* lines 60-62: the next light's shadow sample is drawn
RtLightStore(l, ss) ==
    IF ~IsOk(ss) THEN Abort(ss)
    ELSE /\ stack' = SetTop(stack,
                [Top EXCEPT !.ss = ss.val,
                            !.shadow_samples = shadow_samples(l),
                            !.i = 0, !.pc = "shadow",
                            !.iter = [kind |-> "none"]])
         /\ UNCHANGED <<scene, opts, callq, retv, heap, hnext, fault>>
RtLightSample(l) ==
    \E u \in Rands, v \in Rands :
        /\ RandShadowExact(l, Top.frame.o, u, v)
        /\ RtLightStore(l, rand_light_shadow_sample(l, Top.frame.o, u, v))
RtLightDraw ==
    /\ UNCHANGED notRt
    /\ fault = NoFault
    /\ stack # <<>>
    /\ Top.pc = "light"
    /\ RtLightSample(LightGroup(scene, opts)[Top.li])

\* lines 63-78: one repetition of the shadow loop
RtShadowStore(r) ==
    IF ~IsOk(r) THEN Abort(r)
    ELSE /\ stack' = SetTop(stack,
                [Top EXCEPT !.c = r.val.c, !.i = @ + 1,
                            !.iter = [kind |-> "iter", before |-> Top.c,
                                      after |-> r.val.c,
                                      skip |-> r.val.skip,
                                      queried |-> r.val.queried,
                                      occluded |-> r.val.occluded]])
         /\ UNCHANGED <<scene, opts, callq, retv, heap, hnext, fault>>
RtShadowIter ==
    /\ UNCHANGED notRt
    /\ fault = NoFault
    /\ stack # <<>>
    /\ Top.pc = "shadow"
    /\ Top.i < Top.shadow_samples
    /\ \E occ \in ShadowOutcomes(scene, opts, Top) :
         RtShadowStore(ShadowIteration(occ, opts, Top, heap[Top.brdf]))

\* line 63, line 60: the shadow loop of this light ends; on to the next light
RtShadowDone ==
    /\ UNCHANGED notRt
    /\ fault = NoFault
    /\ stack # <<>>
    /\ Top.pc = "shadow"
    /\ Top.i >= Top.shadow_samples
    /\ stack' = SetTop(stack,
           [Top EXCEPT !.li = @ + 1,
                       !.pc = IF Top.li + 1 > Len(LightGroup(scene, opts))
                              THEN "reflect" ELSE "light"])
    /\ UNCHANGED <<scene, opts, callq, retv, heap, hnext, fault>>

\* lines 82-86: the mirror sample is nonzero; the reflected ray is traced
RtReflectCall ==
    /\ UNCHANGED notRt
    /\ fault = NoFault
    /\ stack # <<>>
    /\ Top.pc = "reflect"
    /\ ReflectGuard(opts, Top.depth)
    /\ LET bs == material_sample_reflection(heap[Top.brdf], Top.frame, Top.wo)
       IN  IF ~IsOk(bs) THEN Abort(bs)
           ELSE /\ bs.val.brdfcos # zero3f
                /\ callq' = Call(Ray(Top.frame.o, bs.val.wi), Top.depth + 1)
                /\ stack' = SetTop(stack, [Top EXCEPT !.bs = bs.val, !.pc = "wait"])
                /\ UNCHANGED <<scene, opts, retv, heap, hnext, fault>>

\* lines 82-89: no recursion (guard false, or the mirror sample is zero)
RtReflectSkip ==
    /\ UNCHANGED notRt
    /\ fault = NoFault
    /\ stack # <<>>
    /\ Top.pc = "reflect"
    /\ \/ ~ReflectGuard(opts, Top.depth)
       \/ LET bs == material_sample_reflection(heap[Top.brdf], Top.frame, Top.wo)
          IN  IsOk(bs) /\ bs.val.brdfcos = zero3f
    /\ stack' = SetTop(stack, [Top EXCEPT !.pc = "cleanup"])
    /\ UNCHANGED <<scene, opts, callq, retv, heap, hnext, fault>>

\* line 86: the recursive call has returned; its radiance is weighted and added
RtResume ==
    /\ UNCHANGED notRt
    /\ fault = NoFault
    /\ stack # <<>>
    /\ Top.pc = "wait"
    /\ retv # NoRet
    /\ stack' = SetTop(stack,
           [Top EXCEPT !.c = VAdd(@, VMul(retv.val, Top.bs.brdfcos)),
                       !.pc = "cleanup"])
    /\ retv' = NoRet
    /\ UNCHANGED <<scene, opts, callq, heap, hnext, fault>>

\* lines 92-95: delete brdf; return c
RtCleanup ==
    /\ UNCHANGED notRt
    /\ fault = NoFault
    /\ stack # <<>>
    /\ Top.pc = "cleanup"
    /\ heap' = Delete(heap, Top.brdf)
    /\ retv' = Ret(Top.c)
    /\ stack' = Pop(stack)
    /\ UNCHANGED <<scene, opts, callq, hnext, fault>>

Next ==
    \/ RtMiss
    \/ RtShade
    \/ RtLightDraw
    \/ RtShadowIter
    \/ RtShadowDone
    \/ RtReflectCall
    \/ RtReflectSkip
    \/ RtResume
    \/ RtCleanup

\* ---------------------------------------------------------- specifications
\* the material model: every evaluation and sampling call
InitSpecMat ==
    /\ mcall = [op |-> "none"]
    /\ lcall = [op |-> "none"]
    /\ envl = EnvLight(FUp, one3f, null, 16, TRUE, null)
    /\ dheap = <<>>
    /\ dnext = 1
    /\ scene = [surfaces |-> <<>>, lights |-> <<>>, _cameralights |-> <<>>]
    /\ opts = [samples |-> 0]
    /\ callq = [kind |-> "none"]
    /\ retv = [kind |-> "none"]
    /\ stack = <<>>
    /\ heap = <<>>
    /\ hnext = 1
    /\ fault = [tag |-> "none"]
    /\ buffer = [w |-> 0, h |-> 0, accum |-> <<>>, samples |-> <<>>]
    /\ drv = [pc |-> "idle"]
    /\ fed = [calls |-> 0]
SpecMat == InitSpecMat /\ [][NextMat]_vars

\* the light model: every sampling call
InitSpecLight ==
    /\ mcall = [op |-> "none"]
    /\ lcall = [op |-> "none"]
    /\ envl = EnvLight(FUp, one3f, null, 16, TRUE, null)
    /\ dheap = <<>>
    /\ dnext = 1
    /\ scene = [surfaces |-> <<>>, lights |-> <<>>, _cameralights |-> <<>>]
    /\ opts = [samples |-> 0]
    /\ callq = [kind |-> "none"]
    /\ retv = [kind |-> "none"]
    /\ stack = <<>>
    /\ heap = <<>>
    /\ hnext = 1
    /\ fault = [tag |-> "none"]
    /\ buffer = [w |-> 0, h |-> 0, accum |-> <<>>, samples |-> <<>>]
    /\ drv = [pc |-> "idle"]
    /\ fed = [calls |-> 0]
SpecLight == InitSpecLight /\ [][NextLight]_vars

\* an environment light, initialized again and again while the scene changes
InitSpecEnv ==
    /\ mcall = [op |-> "none"]
    /\ lcall = [op |-> "none"]
    /\ envl \in {EnvLight(FUp, one3f, t, 16, b, null) :
                    t \in {null} \cup Textures, b \in BOOLEAN}
    /\ dheap = <<>>
    /\ dnext = 1
    /\ scene = [surfaces |-> <<>>, lights |-> <<>>, _cameralights |-> <<>>]
    /\ opts = [samples |-> 0]
    /\ callq = [kind |-> "none"]
    /\ retv = [kind |-> "none"]
    /\ stack = <<>>
    /\ heap = <<>>
    /\ hnext = 1
    /\ fault = [tag |-> "none"]
    /\ buffer = [w |-> 0, h |-> 0, accum |-> <<>>, samples |-> <<>>]
    /\ drv = [pc |-> "idle"]
    /\ fed = [calls |-> 0]
SpecEnv == InitSpecEnv /\ [][NextEnv]_vars

\* --------------------------------------------------- scenes of the render
\* largest max_depth of the options
MaxDepth == 2

LambertGrey == Lambert(Grey, {})
LambertTextured == Lambert(Grey, {"diffuse_texture", "normal_texture"})
Mirror == Phong(Grey, <<Rat(1, 4), Rat(1, 4), Rat(1, 4)>>, 2,
                <<Rat(1, 2), Rat(1, 2), Rat(1, 2)>>, R(0), TRUE, {})
MirrorTextured == Phong(Grey, <<Rat(1, 4), Rat(1, 4), Rat(1, 4)>>, 2,
                        <<Rat(1, 2), Rat(1, 2), Rat(1, 2)>>, R(0), TRUE,
                        {"reflection_texture", "specular_texture"})
Emitter == LambertEmission(one3f, one3f, {"emission_texture"})

Floor(m) == Surface(0, -10, 10, -10, 10, z3f, m)
Ceiling(m) == Surface(8, -4, 10, -10, 10, VNeg(z3f), m)
Blocker == Surface(2, 1, 2, -1, 1, z3f, LambertGrey)
Geometries ==
    {<<Floor(m)>> : m \in {LambertGrey, Emitter}}
    \cup {<<Floor(MirrorTextured), Ceiling(Mirror)>>}
    \cup {<<Floor(Mirror), Ceiling(LambertTextured), Blocker>>}

FLamp == Frame(V(3, 0, 4), V(1, 0, 0), V(0, -1, 0), V(0, 0, -1))
SceneLights ==
    { <<PointLight(FLamp, one3f),
        AreaLight(FDown, V(2, 1, 0), Quad(R(8), R(8)), 2),
        EnvLight(FDown, one3f, null, 2, TRUE, null)>>,
      <<AreaLight(FDown, one3f, Quad(R(8), R(8)), 2), OtherLight(FUp)>> }
CameraLights == <<DirectionalLight(FDown, one3f), PointLight(FDown, V(2, 1, 0))>>
Scenes == {[surfaces |-> g, lights |-> ll, _cameralights |-> CameraLights] :
              g \in Geometries, ll \in SceneLights}

\* camera rays: down and up from between floor and ceiling, up from below
PrimaryRays == {Ray(V(0, 0, 4), V(0, 0, -1)), Ray(V(0, 0, 4), V(0, 0, 1)),
                Ray(V(0, 0, -4), V(0, 0, 1))}

AllOptions ==
    {[background |-> V(1, 0, 0), ambient |-> <<Half, Half, Half>>,
      samples |-> 1, samples_ambient |-> sa, shadows |-> sh,
      reflections |-> rf, max_depth |-> md, cameralights |-> cl,
      doublesided |-> ds] :
        sa \in {-1, 0, 2}, sh \in BOOLEAN, rf \in BOOLEAN, md \in 0..MaxDepth,
        cl \in BOOLEAN, ds \in BOOLEAN}
\* the options of the renders: without reflections max_depth plays no part
\* and is 0; with reflections the ambient term is either the plain one, at
\* every max_depth (two bounces and more under the camera lights), or any
\* one, with one bounce and without shadows
Options ==
    {o \in AllOptions :
        /\ ~o.reflections => o.max_depth = 0
        /\ o.reflections =>
              \/ o.samples_ambient = 0 /\ (o.max_depth >= 2 => o.cameralights)
              \/ o.max_depth = 1 /\ ~o.shadows}

\* one top-level call _dist_raytrace_scene_ray(scene, ray, opts, 0)
InitSpec ==
    /\ mcall = [op |-> "none"]
    /\ lcall = [op |-> "none"]
    /\ envl = EnvLight(FUp, one3f, null, 16, TRUE, null)
    /\ dheap = <<>>
    /\ dnext = 1
    /\ scene \in Scenes
    /\ opts \in Options
    /\ callq \in {Call(r, 0) : r \in PrimaryRays}
    /\ retv = NoRet
    /\ stack = <<>>
    /\ heap = <<>>
    /\ hnext = 1
    /\ fault = NoFault
    /\ buffer = [w |-> 0, h |-> 0, accum |-> <<>>, samples |-> <<>>]
    /\ drv = [pc |-> "idle"]
    /\ fed = [calls |-> 0]
Spec == InitSpec /\ [][Next]_vars

\* ------------------------------------------------------- the pixel driver
\* calls of the driver on one buffer
MaxCalls == 2
\* width and height of the image
ImageSizes == {<<1, 2>>, <<2, 1>>}
\* opts.samples of a call
SampleCounts == {0, 1, 2}
\* the values _dist_raytrace_scene_ray returns to the driver
Radiances == {zero3f, V(1, 0, 0)}
Pixels(w, h) == (0..(w - 1)) \X (0..(h - 1))

\* C2 mutant of Accumulate: the running sum is overwritten
Accumulate_overwrite(buf, px, c) ==
    [buf EXCEPT !.accum[px] = c, !.samples[px] = @ + 1]

\* lines 116-117: buffer.accum.at(px) += c; buffer.samples.at(px) += 1
Accumulate(buf, px, c) ==
    [buf EXCEPT !.accum[px] = VAdd(@, c), !.samples[px] = @ + 1]

\* lines 98-105: the driver is called with opts.samples = n
DrvCall ==
    /\ UNCHANGED notDrv
    /\ drv.pc = "idle"
    /\ fed.calls < MaxCalls
    /\ \E n \in SampleCounts :
         /\ opts' = [opts EXCEPT !.samples = n]
         /\ fed' = [fed EXCEPT !.calls = @ + 1, !.passes = @ + n]
    /\ drv' = [pc |-> "loop", j |-> 0, i |-> 0, k |-> 0]
    /\ UNCHANGED <<scene, callq, retv, stack, heap, hnext, fault, buffer>>

\* lines 110-118: one sample of pixel (i, h-1-j); the integrator returns c
DrvSample ==
    /\ UNCHANGED notDrv
    /\ drv.pc = "loop"
    /\ drv.j < buffer.h /\ drv.i < buffer.w /\ drv.k < opts.samples
    /\ \E c \in Radiances :
         /\ buffer' = Accumulate(buffer, <<drv.i, buffer.h - 1 - drv.j>>, c)
         /\ fed' = [fed EXCEPT
                      !.sum[<<drv.i, buffer.h - 1 - drv.j>>] = VAdd(@, c),
                      !.n[<<drv.i, buffer.h - 1 - drv.j>>] = @ + 1]
    /\ drv' = [drv EXCEPT !.k = @ + 1]
    /\ UNCHANGED <<scene, opts, callq, retv, stack, heap, hnext, fault>>

\* line 110: the sample loop of a pixel ends; line 108: the next pixel
DrvNextPixel ==
    /\ UNCHANGED notDrv
    /\ drv.pc = "loop"
    /\ drv.j < buffer.h /\ drv.i < buffer.w /\ drv.k >= opts.samples
    /\ drv' = [drv EXCEPT !.i = @ + 1, !.k = 0]
    /\ UNCHANGED <<scene, opts, callq, retv, stack, heap, hnext, fault,
                   buffer, fed>>

\* line 108: the pixel loop of a row ends; line 107: the next row
DrvNextRow ==
    /\ UNCHANGED notDrv
    /\ drv.pc = "loop"
    /\ drv.j < buffer.h /\ drv.i >= buffer.w
    /\ drv' = [drv EXCEPT !.j = @ + 1, !.i = 0]
    /\ UNCHANGED <<scene, opts, callq, retv, stack, heap, hnext, fault,
                   buffer, fed>>

\* lines 107, 122: the row loop ends; the driver returns
DrvReturn ==
    /\ UNCHANGED notDrv
    /\ drv.pc = "loop"
    /\ drv.j >= buffer.h
    /\ drv' = [pc |-> "idle"]
    /\ UNCHANGED <<scene, opts, callq, retv, stack, heap, hnext, fault,
                   buffer, fed>>

NextDriver ==
    \/ DrvCall
    \/ DrvSample
    \/ DrvNextPixel
    \/ DrvNextRow
    \/ DrvReturn

\* a buffer with earlier contents, rendered into again and again
InitSpecDriver ==
    /\ mcall = [op |-> "none"]
    /\ lcall = [op |-> "none"]
    /\ envl = EnvLight(FUp, one3f, null, 16, TRUE, null)
    /\ dheap = <<>>
    /\ dnext = 1
    /\ scene = [surfaces |-> <<>>, lights |-> <<>>, _cameralights |-> <<>>]
    /\ opts = [samples |-> 0]
    /\ callq = [kind |-> "none"]
    /\ retv = [kind |-> "none"]
    /\ stack = <<>>
    /\ heap = <<>>
    /\ hnext = 1
    /\ fault = [tag |-> "none"]
    /\ \E sz \in ImageSizes, a \in {zero3f, one3f}, n \in {0, 3} :
         /\ buffer = [w |-> sz[1], h |-> sz[2],
                      accum |-> [px \in Pixels(sz[1], sz[2]) |-> a],
                      samples |-> [px \in Pixels(sz[1], sz[2]) |-> n]]
         /\ fed = [calls |-> 0, passes |-> 0, accum0 |-> a, samples0 |-> n,
                   sum |-> [px \in Pixels(sz[1], sz[2]) |-> zero3f],
                   n |-> [px \in Pixels(sz[1], sz[2]) |-> 0]]
    /\ drv = [pc |-> "idle"]
SpecDriver == InitSpecDriver /\ [][NextDriver]_vars

\* ================================================================== claims
KnownMaterials == {"Lambert", "Phong", "LambertEmission"}
\* the texture slots material_has_textures inspects, by variant
InspectedSlots(kind) ==
    IF kind = "Lambert" THEN {"diffuse_texture"}
    ELSE IF kind = "Phong"
    THEN {"diffuse_texture", "specular_texture", "exponent_texture",
          "reflection_texture"}
    ELSE {"diffuse_texture", "emission_texture"}
EvalOps == {"material_diffuse_albedo", "material_emission", "material_brdfcos",
            "material_sample_brdfcos", "material_sample_reflection",
            "material_sample_blurryreflection"}
TextureErrors == {Err("cannot support textures"), Err("no textures allowed")}
Nonneg(v) == \A i \in 1..3 : RLeq(R(0), v[i])

\* C4 (as claimed): every stochastic shadow sample of an area light has pdf
\* 1/(width x height), a radiance that is non-negative in every component,
\* and a zero radiance when the cosine between the shape's local normal and
\* the outgoing direction is non-positive.
C4_AreaSamplePdfAndSign ==
    (lcall.op = "rand_light_shadow_sample" /\ lcall.light.kind = "AreaLight")
    => LET ss == lcall.ret.val
           sh == lcall.light.shape
           pl == transform_point_inverse(
                     rand_point(lcall.light, lcall.u_rand, lcall.v_rand), lcall.p)
           cosine == RDiv(pl[3], length(pl))
       IN  /\ IsOk(lcall.ret)
           /\ ss.pdf = RDiv(R(1), RMul(sh.width, sh.height))
           /\ Nonneg(ss.radiance)
           /\ RLeq(cosine, R(0)) => ss.radiance = zero3f

\* C5: an evaluation call on a Lambert, Phong or LambertEmission material
\* with any inspected texture slot bound ends in the usage-contract error.
C5_TexturedEvaluationFails ==
    (/\ mcall.op \in EvalOps
     /\ mcall.material.kind \in KnownMaterials
     /\ mcall.material.tex \cap InspectedSlots(mcall.material.kind) # {})
    => mcall.ret \in TextureErrors

\* C5 witness: a Phong material whose only bound slot is the reflection
\* texture was evaluated, and the call failed
C5_Witness ==
    /\ mcall.op = "material_brdfcos"
    /\ mcall.material.kind = "Phong"
    /\ mcall.material.tex = {"reflection_texture"}
    /\ mcall.ret \in TextureErrors

\* C6: every light sampling operation on a light of no known variant ends in
\* the fatal unrecognized-variant error; none returns a default value or
\* silently does nothing.
C6_UnknownVariantAlwaysFatal ==
    (lcall.op # "none" /\ lcall.light.kind = "Light")
    => lcall.ret = NOT_IMPLEMENTED_ERROR

\* C7: of the distributions allocated for the environment light at most one
\* is live and it is the one the light references; an initialization with
\* importance sampling disabled or no texture bound changes nothing.
C7_OneLiveDistribution ==
    /\ DOMAIN dheap \subseteq {envl._importance_distribution}
    /\ envl._importance_distribution # null
         => envl._importance_distribution \in DOMAIN dheap
    /\ (/\ lcall.op = "sample_light_init"
        /\ (~lcall.light.importance_sampling \/ lcall.light.envmap = null))
       => /\ envl = lcall.light
          /\ dheap = lcall.heap
          /\ lcall.after.next = dnext
          /\ lcall.after.heap = lcall.heap

\* C7 witness: the distribution was rebuilt (a second allocation), and one
\* distribution is live
C7_Witness ==
    /\ lcall.op = "sample_light_init"
    /\ dnext >= 3
    /\ lcall.light._importance_distribution # null
    /\ envl._importance_distribution # lcall.light._importance_distribution
    /\ Cardinality(DOMAIN dheap) = 1

\* C8: brdf-cos of a texture-free Lambert, Phong or LambertEmission material
\* is the zero vector when dot(incoming, normal) <= 0 or
\* dot(outgoing, normal) <= 0.
C8_BrdfcosZeroBelowHemisphere ==
    (/\ mcall.op = "material_brdfcos"
     /\ mcall.material.kind \in KnownMaterials
     /\ mcall.material.tex \cap InspectedSlots(mcall.material.kind) = {}
     /\ \/ RLeq(dot(mcall.wi, mcall.frame.z), R(0))
        \/ RLeq(dot(mcall.wo, mcall.frame.z), R(0)))
    => mcall.ret = Ok(zero3f)

\* C8 witness: a Lambert material with a nonzero diffuse colour, the
\* incoming direction above the surface and the outgoing one below it
C8_Witness ==
    /\ mcall.op = "material_brdfcos"
    /\ mcall.material.kind = "Lambert"
    /\ mcall.material.tex \cap InspectedSlots("Lambert") = {}
    /\ mcall.material.diffuse # zero3f
    /\ RLt(R(0), dot(mcall.wi, mcall.frame.z))
    /\ RLt(dot(mcall.wo, mcall.frame.z), R(0))
    /\ mcall.ret = Ok(zero3f)

\* the top-level call is over: it returned, or the program ended in an error
Done == fault # NoFault \/ (stack = <<>> /\ callq = NoCall /\ retv # NoRet)
\* every depth a call runs at, or is being entered at
Depths ==
    {stack[i].depth : i \in 1..Len(stack)}
    \cup (IF callq = NoCall THEN {} ELSE {callq.depth})

\* --- a variant of the estimator: the number of steps a state still allows
\* the cost of one light of the group: the draw, its repetitions, the exit
LightCost ==
    2 + Max(0, CHOOSE m \in {shadow_samples(l) : l \in
                               {LightGroup(scene, opts)[k] :
                                  k \in 1..Len(LightGroup(scene, opts))}} \cup {0} :
                 \A x \in {shadow_samples(l) : l \in
                               {LightGroup(scene, opts)[k] :
                                  k \in 1..Len(LightGroup(scene, opts))}} \cup {0} :
                     x <= m)
\* the steps activation f itself still takes (its recursive call not counted)
Own(f) ==
    IF f.pc = "light"
    THEN (Len(LightGroup(scene, opts)) - f.li + 1) * LightCost + 3
    ELSE IF f.pc = "shadow"
    THEN (Len(LightGroup(scene, opts)) - f.li) * LightCost
         + Max(f.shadow_samples - f.i, 0) + 4
    ELSE IF f.pc = "reflect" THEN 3
    ELSE IF f.pc = "wait" THEN 2
    ELSE 1
\* the steps of a call from its entry: the entry and a whole activation
FullCost == Len(LightGroup(scene, opts)) * LightCost + 4
RECURSIVE SumOwn(_)
SumOwn(st) == IF st = <<>> THEN 0 ELSE Own(st[Len(st)]) + SumOwn(Pop(st))
\* the steps left: the activations' own steps, the call being entered with
\* the calls it may still make, and the calls the innermost activation may
\* still make
Rank ==
    IF fault # NoFault THEN 0
    ELSE SumOwn(stack)
         + (IF callq # NoCall
            THEN (opts.max_depth - callq.depth + 1) * FullCost ELSE 0)
         + (IF stack # <<>> /\ Top.pc \in {"light", "shadow", "reflect"}
            THEN (opts.max_depth - Top.depth) * FullCost ELSE 0)
\* the estimator has a next step: a call is being entered, or the innermost
\* activation can go on (a waiting one once its recursive call has returned)
CanStep ==
    \/ callq # NoCall
    \/ /\ stack # <<>>
       /\ Top.pc = "wait" => retv # NoRet
       /\ Top.pc = "light" =>
             \E u \in Rands, v \in Rands :
                 RandShadowExact(LightGroup(scene, opts)[Top.li], Top.frame.o, u, v)

\* C1: a top-level call at depth 0 only ever makes recursive calls of depth
\* <= max_depth, with max_depth = 0 it makes no recursive call and adds no
\* specular term, and the chain of calls is finite: until the call is over
\* there is a next step, and every step lowers a non-negative variant.
C1_RecursionBoundedAndFinite ==
    /\ [](\A d \in Depths : d <= opts.max_depth)
    /\ [](Len(stack) <= opts.max_depth + 1)
    /\ [](opts.max_depth = 0 =>
            \A i \in 1..Len(stack) : stack[i].pc # "wait" /\ stack[i].bs = BrdfSample0)
    /\ [](Rank >= 0 /\ (~Done => CanStep /\ Rank > 0))
    /\ [][Rank' < Rank]_vars

\* C1 witness: between two mirrors, with reflections on, the innermost call
\* runs at depth max_depth = 2, its own mirror sample is nonzero, and it
\* finishes without recursing
C1_Witness ==
    /\ opts.reflections /\ opts.max_depth = MaxDepth
    /\ Len(stack) = MaxDepth + 1
    /\ Top.depth = MaxDepth
    /\ Top.pc = "cleanup"
    /\ LET bs == material_sample_reflection(heap[Top.brdf], Top.frame, Top.wo)
       IN  IsOk(bs) /\ bs.val.brdfcos # zero3f
    /\ intersect_scene_first(scene, Ray(Top.frame.o, reflect(VNeg(Top.wo), Top.frame.z))).hit

\* C3 (as claimed): in the direct-lighting step the number of repetitions of
\* the shadow loop, which is also the divisor of each contribution, equals
\* the light's shadow-sample-count: 1 for point and directional lights, the
\* configured shadow_samples for area and environment lights.
C3_ShadowLoopUsesSampleCount ==
    \A i \in 1..Len(stack) :
        stack[i].pc = "shadow"
        => stack[i].shadow_samples
             = light_shadow_nsamples(LightGroup(scene, opts)[stack[i].li])

\* C9: the resolved material of every running call is a new instance of the
\* hit material's variant, without textures and with the hit material's
\* coefficients, and no evaluation the integrator makes on it ends in the
\* bound-texture usage-contract error.
C9_ResolvedMaterialIsTextureFree ==
    /\ fault \notin TextureErrors
    /\ \A i \in 1..Len(stack) :
         LET m == stack[i].material
             r == heap[stack[i].brdf]
         IN  /\ r.kind = m.kind
             /\ r.tex = {}
             /\ material_has_textures(r) = Ok(FALSE)
             /\ [r EXCEPT !.tex = m.tex] = m

\* C9 witness: a call that hit a mirror with bound reflection and specular
\* textures has evaluated albedo, emission, the brdf of a light sample and
\* the mirror sample, and waits for its recursive call
C9_Witness ==
    /\ fault = NoFault
    /\ stack # <<>>
    /\ Top.material.kind \in KnownMaterials
    /\ Top.material.tex \cap InspectedSlots(Top.material.kind) # {}
    /\ Top.iter.kind = "iter" /\ ~Top.iter.skip
    /\ Top.pc = "wait"

\* the contribution cl / shadow_samples of the last shadow-loop repetition of
\* activation f
Contribution(f) ==
    VDiv(ShadowCl(f, material_brdfcos(heap[f.brdf], f.frame, f.ss.dir, f.wo)),
         R(f.shadow_samples))

\* C10: with shadows enabled a repetition of the shadow loop adds the light's
\* contribution only if the visibility query it makes reports no occluder;
\* with shadows disabled it makes no query and adds the contribution.
C10_ShadowsGateContribution ==
    \A i \in 1..Len(stack) :
        LET f == stack[i]
        IN  (f.iter.kind = "iter" /\ ~f.iter.skip)
            => /\ f.iter.queried = opts.shadows
               /\ f.iter.occluded => f.iter.after = f.iter.before
               /\ ~f.iter.occluded
                    => f.iter.after = VAdd(f.iter.before, Contribution(f))
               /\ Contribution(f) # zero3f

\* C10 witness: the only sample of a point light is occluded, and the light
\* has added nothing
C10_Witness ==
    /\ opts.shadows
    /\ stack # <<>>
    /\ Top.pc = "shadow"
    /\ LightGroup(scene, opts)[Top.li].kind = "PointLight"
    /\ Top.shadow_samples = 1 /\ Top.i = 1
    /\ Top.iter.kind = "iter" /\ Top.iter.queried /\ Top.iter.occluded
    /\ Top.c = Top.iter.before

\* C2: after any sequence of driver calls every pixel's sample count is its
\* first value plus the number of values fed to it, its running sum is its
\* first value plus the sum of the fed values, and between calls every pixel
\* has been fed S1 + ... + Sn values: as after one pass of that many samples.
C2_ProgressiveAccumulation ==
    \A px \in Pixels(buffer.w, buffer.h) :
        /\ buffer.samples[px] = fed.samples0 + fed.n[px]
        /\ buffer.accum[px] = VAdd(fed.accum0, fed.sum[px])
        /\ drv.pc = "idle" => fed.n[px] = fed.passes

\* C2 witness: a buffer with earlier contents was rendered into twice, with
\* one sample and then with two, and every pixel received a nonzero radiance
C2_Witness ==
    /\ drv.pc = "idle"
    /\ fed.calls = 2 /\ fed.passes = 3 /\ opts.samples = 2
    /\ fed.accum0 # zero3f /\ fed.samples0 > 0
    /\ buffer.h > 1
    /\ \A px \in Pixels(buffer.w, buffer.h) :
         fed.sum[px] # zero3f /\ buffer.samples[px] = fed.samples0 + 3

\* the resolved instances the running activations hold
Held == {stack[i].brdf : i \in 1..Len(stack)}
\* the top-level call has returned
Returned == fault = NoFault /\ stack = <<>> /\ callq = NoCall /\ retv # NoRet

\* C11: while the program runs, the live resolved instances are exactly those
\* of the running activations, one each, so at most depth+1 <= max_depth+1
\* are live and none is live once the top-level call has returned; a call
\* that returns releases its own live instance in that step, and a call that
\* finds no hit allocates none.
C11_ResolvedInstanceReleasedOnce ==
    /\ [](fault = NoFault =>
            /\ DOMAIN heap = Held
            /\ Cardinality(Held) = Len(stack)
            /\ Cardinality(DOMAIN heap) <= opts.max_depth + 1
            /\ stack # <<>> => Cardinality(DOMAIN heap) = Top.depth + 1)
    /\ [](Returned => DOMAIN heap = {})
    /\ [][Len(stack') < Len(stack) =>
            /\ Top.brdf \in DOMAIN heap
            /\ DOMAIN heap' = DOMAIN heap \ {Top.brdf}]_vars
    /\ [][(callq # NoCall /\ retv' # NoRet /\ Len(stack') = Len(stack)) =>
            (heap' = heap /\ hnext' = hnext)]_vars

\* C11 witness: a top-level call that recursed to depth max_depth = 2 has
\* returned; it allocated three instances and none is live
C11_Witness ==
    /\ Returned
    /\ opts.reflections /\ opts.max_depth = MaxDepth
    /\ hnext = MaxDepth + 2
    /\ DOMAIN heap = {}

\* C12 (as claimed): the ambient term of a hit is ambient x albedo when
\* samples_ambient is 0; when samples_ambient = n > 0 exactly n occlusion
\* rays are cast and the term is ambient x (visible / n) x albedo with
\* 0 <= visible <= n; the occlusion branch is taken only when
\* samples_ambient > 0, so for any other count the term is ambient x albedo
\* and no ray is cast.
C12_AmbientTerm ==
    \A i \in 1..Len(stack) :
        LET f == stack[i]
            albedo == heap[f.brdf].diffuse
            n == opts.samples_ambient
        IN  /\ n > 0 =>
                 /\ f.nrays = n
                 /\ 0 <= f.visible /\ f.visible <= n
                 /\ f.ambient = VMul(VScale(opts.ambient,
                                            RDiv(R(f.visible), R(n))), albedo)
            /\ ~(n > 0) =>
                 /\ f.nrays = 0
                 /\ f.ambient = VMul(opts.ambient, albedo)

====
